---- MODULE Spec2Model ----
(***************************************************************************)
(* The L5 type checker (L5-typecheck.ts) and its type environment (TEnv).  *)
(*                                                                         *)
(* Type expressions, AST nodes, environments and results are records that  *)
(* carry the tag of the TypeScript object they stand for.  The typing      *)
(* functions are recursive operators that follow the source branch by      *)
(* branch.  Failure messages keep their fixed text; the unparsed           *)
(* expression that the source appends to some of them is left out.         *)
(*                                                                         *)
(* Three specifications:                                                   *)
(*   Spec     typeofProgram on a program drawn from Programs; each state   *)
(*            is one activation of typeOfSequence(seq, env), a step is the *)
(*            tail call it makes (or the result it returns);               *)
(*   SpecExp  typeofExp on one expression drawn from ExpPool in an         *)
(*            environment drawn from EnvPool;                              *)
(*   SpecEnv  combineEnvs on two environments drawn from EnvPool.          *)
(***************************************************************************)
EXTENDS Integers, Sequences, FiniteSets, TLC

VARIABLES exps, seq, env, pc, result,
          exp, tenv, res,
          firstEnv, secondEnv, combined

vars == <<exps, seq, env, pc, result, exp, tenv, res, firstEnv, secondEnv, combined>>

\* Longest program (number of top-level forms) drawn by Spec.
MaxForms == 3
\* Largest number of operands of the applications drawn by SpecExp.
MaxRands == 2

(***************************************************************************)
(* Result<T>                                                               *)
(***************************************************************************)
makeOk(v) == [tag |-> "Ok", value |-> v]
makeFailure(m) == [tag |-> "Failure", message |-> m]
isOk(r) == r.tag = "Ok"
isFailure(r) == r.tag = "Failure"
\* The value of a variable that holds no result yet.
NoResult == [tag |-> "None"]

(***************************************************************************)
(* TExp                                                                    *)
(***************************************************************************)
makeNumTExp == [tag |-> "NumTExp"]
makeBoolTExp == [tag |-> "BoolTExp"]
makeStrTExp == [tag |-> "StrTExp"]
makeVoidTExp == [tag |-> "VoidTExp"]
makeEmptyTupleTExp == [tag |-> "EmptyTupleTExp"]
makeTVar(v) == [tag |-> "TVar", var |-> v]
makeProcTExp(paramTEs, returnTE) ==
    [tag |-> "ProcTExp", paramTEs |-> paramTEs, returnTE |-> returnTE]
makePairTExp(t1, t2) == [tag |-> "PairTExp", first |-> t1, second |-> t2]
isProcTExp(te) == te.tag = "ProcTExp"
isPairTExp(te) == te.tag = "PairTExp"

\* Does the type expression te contain the type variable named v?
RECURSIVE isContainedTvar(_, _)
isContainedTvar(v, te) ==
    IF te.tag = "TVar" THEN te.var = v
    ELSE IF te.tag = "ProcTExp"
         THEN \/ \E i \in 1..Len(te.paramTEs) : isContainedTvar(v, te.paramTEs[i])
              \/ isContainedTvar(v, te.returnTE)
    ELSE IF te.tag = "PairTExp"
         THEN isContainedTvar(v, te.first) \/ isContainedTvar(v, te.second)
    ELSE FALSE

(***************************************************************************)
(* TEnv                                                                    *)
(***************************************************************************)
makeEmptyTEnv == [tag |-> "EmptyTEnv"]
makeExtendTEnv(vs, texps, e) ==
    [tag |-> "ExtendTEnv", vars |-> vs, texps |-> texps, tenv |-> e]
isEmptyTEnv(x) == x.tag = "EmptyTEnv"

\* Array.prototype.indexOf: the first position of v in s (1-based), 0 for -1.
indexOf(s, v) ==
    IF \E i \in 1..Len(s) : s[i] = v
    THEN CHOOSE i \in 1..Len(s) : s[i] = v /\ \A j \in 1..(i - 1) : s[j] # v
    ELSE 0

RECURSIVE applyTEnv(_, _)
applyExtendTEnv(texps, e, v, pos) ==
    IF pos = 0 THEN applyTEnv(e, v) ELSE makeOk(texps[pos])

applyTEnv(e, v) ==
    IF isEmptyTEnv(e) THEN makeFailure("Type Variable not found")
    ELSE applyExtendTEnv(e.texps, e.tenv, v, indexOf(e.vars, v))

\* Array.prototype.filter with the predicate isNotInFirst of makeNewEnv.
RECURSIVE filterNotInFirst(_, _)
filterNotInFirst(vs, e) ==
    IF vs = <<>> THEN <<>>
    ELSE IF isFailure(applyTEnv(e, Head(vs)))
         THEN <<Head(vs)>> \o filterNotInFirst(Tail(vs), e)
         ELSE filterNotInFirst(Tail(vs), e)

\* diffVars.map((v) => secondEnvTexps[secondEnvVars.indexOf(v)])
RECURSIVE texpsOf(_, _, _)
texpsOf(vs, allVars, allTexps) ==
    IF vs = <<>> THEN <<>>
    ELSE <<allTexps[indexOf(allVars, Head(vs))]>> \o texpsOf(Tail(vs), allVars, allTexps)

\* A plausible slip: the second environment's frame is chained whole, so a
\* re-declared name shadows the first environment's binding.
makeNewEnv_Shadow(a, b) ==
    IF \E i \in 1..Len(b.vars) : isContainedTvar(b.vars[i], b.texps[i])
    THEN makeFailure("Variable is defined recursivly")
    ELSE makeOk(makeExtendTEnv(b.vars, b.texps, a))

makeNewEnv(a, b) ==
    LET secondEnvVars == b.vars
        secondEnvTexps == b.texps
        selfDefined == \E i \in 1..Len(secondEnvVars) :
                          isContainedTvar(secondEnvVars[i], secondEnvTexps[i])
        diffVars == filterNotInFirst(secondEnvVars, a)
        diffTexps == texpsOf(diffVars, secondEnvVars, secondEnvTexps)
    IN  IF selfDefined THEN makeFailure("Variable is defined recursivly")
        ELSE makeOk(makeExtendTEnv(diffVars, diffTexps, a))

combineEnvs(a, b) ==
    IF isEmptyTEnv(a) THEN makeOk(b)
    ELSE IF isEmptyTEnv(b) THEN makeOk(a)
    ELSE makeNewEnv(a, b)

(***************************************************************************)
(* AST nodes (L5-ast) and quoted values (L5-value)                         *)
(***************************************************************************)
makeNumExp(n) == [tag |-> "NumExp", val |-> n]
makeBoolExp(b) == [tag |-> "BoolExp", val |-> b]
makeStrExp(s) == [tag |-> "StrExp", val |-> s]
makePrimOp(op) == [tag |-> "PrimOp", op |-> op]
makeVarRef(v) == [tag |-> "VarRef", var |-> v]
makeVarDecl(v, te) == [tag |-> "VarDecl", var |-> v, texp |-> te]
makeIfExp(test, then, alt) == [tag |-> "IfExp", test |-> test, then |-> then, alt |-> alt]
makeProcExp(args, body, returnTE) ==
    [tag |-> "ProcExp", args |-> args, body |-> body, returnTE |-> returnTE]
makeAppExp(rator, rands) == [tag |-> "AppExp", rator |-> rator, rands |-> rands]
makeBinding(vd, val) == [tag |-> "Binding", var |-> vd, val |-> val]
makeLetExp(bindings, body) == [tag |-> "LetExp", bindings |-> bindings, body |-> body]
makeLetrecExp(bindings, body) == [tag |-> "LetrecExp", bindings |-> bindings, body |-> body]
makeDefineExp(vd, val) == [tag |-> "DefineExp", var |-> vd, val |-> val]
makeLitExp(val) == [tag |-> "LitExp", val |-> val]
makeProgram(es) == [tag |-> "Program", exps |-> es]

\* SExpValue: the JavaScript number, boolean and string values are tagged with
\* their typeof; the other three carry the tag of their object.
makeNumberSExp(n) == [tag |-> "number", val |-> n]
makeBooleanSExp(b) == [tag |-> "boolean", val |-> b]
makeStringSExp(s) == [tag |-> "string", val |-> s]
makeSymbolSExp(s) == [tag |-> "SymbolSExp", val |-> s]
makeEmptySExp == [tag |-> "EmptySExp"]
makeCompoundSExp(v1, v2) == [tag |-> "CompoundSExp", val1 |-> v1, val2 |-> v2]
isCompoundSExp(v) == v.tag = "CompoundSExp"

isPrimOp(e) == e.tag = "PrimOp"
isProcExp(e) == e.tag = "ProcExp"
isDefineExp(e) == e.tag = "DefineExp"

(***************************************************************************)
(* L5-typecheck                                                            *)
(***************************************************************************)
\* A plausible slip: an expected type variable is instantiated, so it matches
\* any actual type.
checkEqualType_TVarMatches(te1, te2, e) ==
    IF te1 = te2 \/ te2.tag = "TVar" THEN makeOk(TRUE)
    ELSE makeFailure("Incompatible types")

checkEqualType(te1, te2, e) ==
    IF te1 = te2 THEN makeOk(TRUE) ELSE makeFailure("Incompatible types")

RECURSIVE typeofExp(_, _), typeofExps(_, _), typeofSExpLiteral(_),
          typeofCompoundSExp(_), typeofIf(_, _), typeofProc(_, _), typeofApp(_, _),
          typeofLet(_, _), typeofLetrec(_, _), typeofDefine(_, _),
          typeofProgram(_, _), typeOfSequence(_, _), typeOfFirst(_, _, _),
          typeofDefineExps(_, _, _), typeofAppPrim(_, _), typeofAppProc(_, _),
          appConstraints(_, _, _, _), letConstraints(_, _, _, _),
          letrecTypes(_, _), letrecConstraints(_, _, _)

typeofExps(es, e) ==
    IF es # <<>>
    THEN IF Tail(es) = <<>> THEN typeofExp(Head(es), e)
         ELSE LET r == typeofExp(Head(es), e)
              IN  IF isOk(r) THEN typeofExps(Tail(es), e) ELSE r
    ELSE makeFailure("Unexpected empty list of expressions")

\* A plausible slip: the empty value falls into the symbol case.
typeofSExpLiteral_EmptyAsSymbol(val) ==
    IF val.tag = "number" THEN makeOk(makeNumTExp)
    ELSE IF val.tag = "boolean" THEN makeOk(makeBoolTExp)
    ELSE IF val.tag = "string" THEN makeOk(makeStrTExp)
    ELSE IF val.tag \in {"SymbolSExp", "EmptySExp"} THEN makeOk(makeTVar("literal"))
    ELSE IF isCompoundSExp(val) THEN typeofCompoundSExp(val)
    ELSE makeFailure("Unknown SExp value")

typeofSExpLiteral(val) ==
    IF val.tag = "number" THEN makeOk(makeNumTExp)
    ELSE IF val.tag = "boolean" THEN makeOk(makeBoolTExp)
    ELSE IF val.tag = "string" THEN makeOk(makeStrTExp)
    ELSE IF val.tag = "SymbolSExp" THEN makeOk(makeTVar("literal"))
    ELSE IF val.tag = "EmptySExp" THEN makeOk(makeEmptyTupleTExp)
    ELSE IF isCompoundSExp(val) THEN typeofCompoundSExp(val)
    ELSE makeFailure("Unknown SExp value")

typeofCompoundSExp(val) ==
    LET leftTE == typeofSExpLiteral(val.val1)
        rightTE == typeofSExpLiteral(val.val2)
    IN  IF isFailure(leftTE) THEN leftTE
        ELSE IF isFailure(rightTE) THEN rightTE
        ELSE makeOk(makePairTExp(leftTE.value, rightTE.value))

\* A plausible slip: the quoted value is always classified, also at the top.
typeofLit_Classify(e) == typeofSExpLiteral(e.val)

typeofLit(e) ==
    IF isCompoundSExp(e.val) THEN typeofCompoundSExp(e.val)
    ELSE makeOk(makeTVar("literal"))

typeofNum(n) == makeNumTExp
typeofBool(b) == makeBoolTExp
typeofStr(s) == makeStrTExp

numOpTExp == makeOk(makeProcTExp(<<makeNumTExp, makeNumTExp>>, makeNumTExp))
numCompTExp == makeOk(makeProcTExp(<<makeNumTExp, makeNumTExp>>, makeBoolTExp))
boolOpTExp == makeOk(makeProcTExp(<<makeBoolTExp, makeBoolTExp>>, makeBoolTExp))

typeofPrim(p) ==
    IF p.op \in {"+", "-", "*", "/"} THEN numOpTExp
    ELSE IF p.op \in {"and", "or"} THEN boolOpTExp
    ELSE IF p.op \in {">", "<", "="} THEN numCompTExp
    ELSE IF p.op \in {"number?", "boolean?", "string?", "list?", "pair?", "symbol?"}
         THEN makeOk(makeProcTExp(<<makeTVar("T")>>, makeBoolTExp))
    ELSE IF p.op = "not" THEN makeOk(makeProcTExp(<<makeBoolTExp>>, makeBoolTExp))
    ELSE IF p.op \in {"eq?", "string=?"}
         THEN makeOk(makeProcTExp(<<makeTVar("T1"), makeTVar("T2")>>, makeBoolTExp))
    ELSE IF p.op = "display" THEN makeOk(makeProcTExp(<<makeTVar("T")>>, makeVoidTExp))
    ELSE IF p.op = "newline" THEN makeOk(makeProcTExp(<<>>, makeVoidTExp))
    ELSE IF p.op = "cons"
         THEN makeOk(makeProcTExp(<<makeTVar("T1"), makeTVar("T2")>>,
                                  makePairTExp(makeTVar("T1"), makeTVar("T2"))))
    ELSE IF p.op = "car"
         THEN makeOk(makeProcTExp(<<makePairTExp(makeTVar("T1"), makeTVar("T2"))>>,
                                  makeTVar("T1")))
    ELSE IF p.op = "cdr"
         THEN makeOk(makeProcTExp(<<makePairTExp(makeTVar("T1"), makeTVar("T2"))>>,
                                  makeTVar("T2")))
    ELSE makeFailure("Operator not supported")

typeofIf(ifExp, e) ==
    LET testTE == typeofExp(ifExp.test, e)
        thenTE == typeofExp(ifExp.then, e)
        altTE == typeofExp(ifExp.alt, e)
        constraint1 == IF isOk(testTE)
                       THEN checkEqualType(testTE.value, makeBoolTExp, ifExp)
                       ELSE testTE
        constraint2 == IF isFailure(thenTE) THEN thenTE
                       ELSE IF isFailure(altTE) THEN altTE
                       ELSE checkEqualType(thenTE.value, altTE.value, ifExp)
    IN  IF isFailure(constraint1) THEN constraint1
        ELSE IF isFailure(constraint2) THEN constraint2
        ELSE thenTE

\* map((vd) => vd.texp, args) and map((vd) => vd.var, args)
RECURSIVE declTExps(_), declVars(_)
declTExps(args) ==
    IF args = <<>> THEN <<>> ELSE <<Head(args).texp>> \o declTExps(Tail(args))
declVars(args) ==
    IF args = <<>> THEN <<>> ELSE <<Head(args).var>> \o declVars(Tail(args))

typeofProc(proc, e) ==
    LET argsTEs == declTExps(proc.args)
        extTEnv == makeExtendTEnv(declVars(proc.args), argsTEs, e)
        body == typeofExps(proc.body, extTEnv)
        constraint1 == IF isOk(body) THEN checkEqualType(body.value, proc.returnTE, proc)
                       ELSE body
    IN  IF isOk(constraint1) THEN makeOk(makeProcTExp(argsTEs, proc.returnTE))
        ELSE constraint1

\* zipWithResult over (rand, trand): the first failure, left to right, wins.
appConstraints(rands, paramTEs, app, e) ==
    IF rands = <<>> \/ paramTEs = <<>> THEN makeOk(<<>>)
    ELSE LET typeOfRand == typeofExp(Head(rands), e)
             c == IF isOk(typeOfRand)
                  THEN checkEqualType(typeOfRand.value, Head(paramTEs), app)
                  ELSE typeOfRand
         IN  IF isFailure(c) THEN c
             ELSE LET cs == appConstraints(Tail(rands), Tail(paramTEs), app, e)
                  IN  IF isFailure(cs) THEN cs ELSE makeOk(<<c.value>> \o cs.value)

\* A plausible slip: cdr copied from car without changing the component.
typeofAppPrim_CarForCdr(app, e) ==
    IF app.rator.op \in {"car", "cdr"}
    THEN IF Len(app.rands) # 1 THEN makeFailure("cdr expects exactly 1 argument")
         ELSE LET pair == typeofExp(app.rands[1], e)
              IN  IF isFailure(pair) THEN pair
                  ELSE IF isPairTExp(pair.value) THEN makeOk(pair.value.first)
                  ELSE makeFailure("cdr expected a pair")
    ELSE IF Len(app.rands) # 2 THEN makeFailure("cons expects exactly 2 arguments")
         ELSE LET t1 == typeofExp(app.rands[1], e)
                  t2 == typeofExp(app.rands[2], e)
              IN  IF isFailure(t1) THEN t1
                  ELSE IF isFailure(t2) THEN t2
                  ELSE makeOk(makePairTExp(t1.value, t2.value))

\* The bespoke rules of car, cdr and cons (the operator is one of the three).
typeofAppPrim(app, e) ==
    IF app.rator.op = "car"
    THEN IF Len(app.rands) # 1 THEN makeFailure("cdr expects exactly 1 argument")
         ELSE LET pair == typeofExp(app.rands[1], e)
              IN  IF isFailure(pair) THEN pair
                  ELSE IF isPairTExp(pair.value) THEN makeOk(pair.value.first)
                  ELSE makeFailure("cdr expected a pair")
    ELSE IF app.rator.op = "cdr"
    THEN IF Len(app.rands) # 1 THEN makeFailure("cdr expects exactly 1 argument")
         ELSE LET pair == typeofExp(app.rands[1], e)
              IN  IF isFailure(pair) THEN pair
                  ELSE IF isPairTExp(pair.value) THEN makeOk(pair.value.second)
                  ELSE makeFailure("cdr expected a pair")
    ELSE IF Len(app.rands) # 2 THEN makeFailure("cons expects exactly 2 arguments")
         ELSE LET t1 == typeofExp(app.rands[1], e)
                  t2 == typeofExp(app.rands[2], e)
              IN  IF isFailure(t1) THEN t1
                  ELSE IF isFailure(t2) THEN t2
                  ELSE makeOk(makePairTExp(t1.value, t2.value))

\* A plausible slip: the operands are counted but their types are not compared.
typeofAppProc_NoArgCheck(app, e) ==
    LET ratorTE == typeofExp(app.rator, e)
    IN  IF isFailure(ratorTE) THEN ratorTE
        ELSE IF ~isProcTExp(ratorTE.value)
             THEN makeFailure("Application of non-procedure")
        ELSE IF Len(app.rands) # Len(ratorTE.value.paramTEs)
             THEN makeFailure("Wrong parameter numbers passed to proc")
        ELSE makeOk(ratorTE.value.returnTE)

\* The generic rule of every other application.
typeofAppProc(app, e) ==
    LET ratorTE == typeofExp(app.rator, e)
    IN  IF isFailure(ratorTE) THEN ratorTE
        ELSE IF ~isProcTExp(ratorTE.value)
             THEN makeFailure("Application of non-procedure")
        ELSE IF Len(app.rands) # Len(ratorTE.value.paramTEs)
             THEN makeFailure("Wrong parameter numbers passed to proc")
        ELSE LET constraints == appConstraints(app.rands, ratorTE.value.paramTEs, app, e)
             IN  IF isFailure(constraints) THEN constraints
                 ELSE makeOk(ratorTE.value.returnTE)

typeofApp(app, e) ==
    IF isPrimOp(app.rator) /\ app.rator.op \in {"car", "cdr", "cons"}
    THEN typeofAppPrim(app, e)
    ELSE typeofAppProc(app, e)

\* map((b) => b.var.var, bindings), map((b) => b.val, bindings),
\* map((b) => b.var.texp, bindings)
RECURSIVE bindingVars(_), bindingVals(_), bindingTExps(_)
bindingVars(bs) ==
    IF bs = <<>> THEN <<>> ELSE <<Head(bs).var.var>> \o bindingVars(Tail(bs))
bindingVals(bs) ==
    IF bs = <<>> THEN <<>> ELSE <<Head(bs).val>> \o bindingVals(Tail(bs))
bindingTExps(bs) ==
    IF bs = <<>> THEN <<>> ELSE <<Head(bs).var.texp>> \o bindingTExps(Tail(bs))

\* zipWithResult over (varTE, val)
letConstraints(varTEs, vals, letExp, e) ==
    IF varTEs = <<>> \/ vals = <<>> THEN makeOk(<<>>)
    ELSE LET typeOfVal == typeofExp(Head(vals), e)
             c == IF isOk(typeOfVal)
                  THEN checkEqualType(Head(varTEs), typeOfVal.value, letExp)
                  ELSE typeOfVal
         IN  IF isFailure(c) THEN c
             ELSE LET cs == letConstraints(Tail(varTEs), Tail(vals), letExp, e)
                  IN  IF isFailure(cs) THEN cs ELSE makeOk(<<c.value>> \o cs.value)

\* A plausible slip: the body is typed in the outer environment.
typeofLet_OuterBody(letExp, e) ==
    LET constraints == letConstraints(bindingTExps(letExp.bindings),
                                      bindingVals(letExp.bindings), letExp, e)
    IN  IF isFailure(constraints) THEN constraints
        ELSE typeofExps(letExp.body, e)

typeofLet(letExp, e) ==
    LET vs == bindingVars(letExp.bindings)
        vals == bindingVals(letExp.bindings)
        varTEs == bindingTExps(letExp.bindings)
        constraints == letConstraints(varTEs, vals, letExp, e)
    IN  IF isFailure(constraints) THEN constraints
        ELSE typeofExps(letExp.body, makeExtendTEnv(vs, varTEs, e))

\* zipWith((tij, ti) => makeProcTExp(tij, ti), tijs, tis) over the procedures
RECURSIVE procTExps(_)
procTExps(procs) ==
    IF procs = <<>> THEN <<>>
    ELSE <<makeProcTExp(declTExps(Head(procs).args), Head(procs).returnTE)>>
         \o procTExps(Tail(procs))

\* zipWithResult((bodyI, tenvI) => typeofExps(bodyI, tenvI), bodies, tenvIs)
letrecTypes(procs, tenvBody) ==
    IF procs = <<>> THEN makeOk(<<>>)
    ELSE LET p == Head(procs)
             tenvI == makeExtendTEnv(declVars(p.args), declTExps(p.args), tenvBody)
             t == typeofExps(p.body, tenvI)
         IN  IF isFailure(t) THEN t
             ELSE LET ts == letrecTypes(Tail(procs), tenvBody)
                  IN  IF isFailure(ts) THEN ts ELSE makeOk(<<t.value>> \o ts.value)

\* zipWithResult((typeI, ti) => checkEqualType(typeI, ti, exp), types, tis)
letrecConstraints(types, procs, letrecExp) ==
    IF types = <<>> \/ procs = <<>> THEN makeOk(<<>>)
    ELSE LET c == checkEqualType(Head(types), Head(procs).returnTE, letrecExp)
         IN  IF isFailure(c) THEN c
             ELSE LET cs == letrecConstraints(Tail(types), Tail(procs), letrecExp)
                  IN  IF isFailure(cs) THEN cs ELSE makeOk(<<c.value>> \o cs.value)

\* A plausible slip: the test that every bound value is a procedure is dropped;
\* a bound value that is no procedure is then typed like the others.
typeofLetrec_NoProcTest(letrecExp, e) ==
    LET tenvBody == makeExtendTEnv(bindingVars(letrecExp.bindings),
                                   bindingTExps(letrecExp.bindings), e)
        vals == letConstraints(bindingTExps(letrecExp.bindings),
                               bindingVals(letrecExp.bindings), letrecExp, tenvBody)
    IN  IF isFailure(vals) THEN vals ELSE typeofExps(letrecExp.body, tenvBody)

\* A plausible slip: the bound names enter the body environment with their
\* declared types instead of the types built from the procedures.
typeofLetrec_DeclaredTypes(letrecExp, e) ==
    LET ps == bindingVars(letrecExp.bindings)
        procs == bindingVals(letrecExp.bindings)
    IN  IF ~(\A i \in 1..Len(procs) : isProcExp(procs[i]))
        THEN makeFailure("letrec - only support binding of procedures")
        ELSE LET tenvBody == makeExtendTEnv(ps, bindingTExps(letrecExp.bindings), e)
                 types == letrecTypes(procs, tenvBody)
                 constraints == IF isOk(types)
                                THEN letrecConstraints(types.value, procs, letrecExp)
                                ELSE types
             IN  IF isFailure(constraints) THEN constraints
                 ELSE typeofExps(letrecExp.body, tenvBody)

typeofLetrec(letrecExp, e) ==
    LET ps == bindingVars(letrecExp.bindings)
        procs == bindingVals(letrecExp.bindings)
    IN  IF ~(\A i \in 1..Len(procs) : isProcExp(procs[i]))
        THEN makeFailure("letrec - only support binding of procedures")
        ELSE LET tenvBody == makeExtendTEnv(ps, procTExps(procs), e)
                 types == letrecTypes(procs, tenvBody)
                 constraints == IF isOk(types)
                                THEN letrecConstraints(types.value, procs, letrecExp)
                                ELSE types
             IN  IF isFailure(constraints) THEN constraints
                 ELSE typeofExps(letrecExp.body, tenvBody)

typeOfSequence(es, e) ==
    IF es # <<>> THEN typeOfFirst(Head(es), Tail(es), e)
    ELSE makeFailure("Empty sequence")

typeOfFirst(first, rest, e) ==
    IF isDefineExp(first) THEN typeofDefineExps(first, rest, e)
    ELSE IF rest = <<>> THEN typeofExp(first, e)
    ELSE LET r == typeofExp(first, e)
         IN  IF isOk(r) THEN typeOfSequence(rest, e) ELSE r

\* The two steps of typeofDefineExps before its tail call: the define's own
\* constraint, then the environment of the remaining forms.
defineConstraint(d, e) ==
    LET valTE == typeofExp(d.val, e)
    IN  IF isOk(valTE) THEN checkEqualType(d.var.texp, valTE.value, d) ELSE valTE

defineEnv(d, e) ==
    LET newEnv == makeExtendTEnv(<<d.var.var>>, <<d.var.texp>>, e)
    IN  combineEnvs(e, newEnv)

typeofDefineExps(d, rest, e) ==
    LET constraint == defineConstraint(d, e)
    IN  IF isFailure(constraint) THEN constraint
        ELSE LET newE == defineEnv(d, e)
             IN  IF isFailure(newE) THEN newE
                 ELSE typeOfSequence(rest, newE.value)

\* A plausible slip: the declared type is not compared with the value's type.
typeofDefine_NoCheck(d, e) ==
    LET valTE == typeofExp(d.val, e)
    IN  IF isFailure(valTE) THEN valTE ELSE makeOk(makeVoidTExp)

\* A plausible slip: the value is typed in the environment extended with the
\* name being defined (the env-body of the rule's comment).
typeofDefine_SelfVisible(d, e) ==
    LET valTE == typeofExp(d.val, makeExtendTEnv(<<d.var.var>>, <<d.var.texp>>, e))
        constraint == IF isOk(valTE) THEN checkEqualType(d.var.texp, valTE.value, d)
                      ELSE valTE
    IN  IF isFailure(constraint) THEN constraint ELSE makeOk(makeVoidTExp)

typeofDefine(d, e) ==
    LET valTE == typeofExp(d.val, e)
        constraint == IF isOk(valTE) THEN checkEqualType(d.var.texp, valTE.value, d)
                      ELSE valTE
    IN  IF isFailure(constraint) THEN constraint ELSE makeOk(makeVoidTExp)

typeofProgram(prog, e) == typeOfSequence(prog.exps, e)

typeofExp(x, e) ==
    IF x.tag = "NumExp" THEN makeOk(typeofNum(x))
    ELSE IF x.tag = "BoolExp" THEN makeOk(typeofBool(x))
    ELSE IF x.tag = "StrExp" THEN makeOk(typeofStr(x))
    ELSE IF x.tag = "PrimOp" THEN typeofPrim(x)
    ELSE IF x.tag = "VarRef" THEN applyTEnv(e, x.var)
    ELSE IF x.tag = "IfExp" THEN typeofIf(x, e)
    ELSE IF x.tag = "ProcExp" THEN typeofProc(x, e)
    ELSE IF x.tag = "AppExp" THEN typeofApp(x, e)
    ELSE IF x.tag = "LetExp" THEN typeofLet(x, e)
    ELSE IF x.tag = "LetrecExp" THEN typeofLetrec(x, e)
    ELSE IF x.tag = "DefineExp" THEN typeofDefine(x, e)
    ELSE IF x.tag = "Program" THEN typeofProgram(x, e)
    ELSE IF x.tag = "LitExp" THEN typeofLit(x)
    ELSE makeFailure("Unknown type")

(***************************************************************************)
(* The inputs: type expressions, environments, expressions, programs       *)
(***************************************************************************)
NumT == makeNumTExp
BoolT == makeBoolTExp
StrT == makeStrTExp
PairNB == makePairTExp(NumT, BoolT)
ProcNN == makeProcTExp(<<NumT>>, NumT)
ProcNB == makeProcTExp(<<NumT>>, BoolT)
LiteralT == makeTVar("literal")

Num5 == makeNumExp("5")
True == makeBoolExp("#t")
Hello == makeStrExp("hello")
Cons5T == makeAppExp(makePrimOp("cons"), <<Num5, True>>)
QuoteAbc == makeLitExp(makeSymbolSExp("abc"))
\* (lambda ((n : number)) : number n)
LambdaId == makeProcExp(<<makeVarDecl("n", NumT)>>, <<makeVarRef("n")>>, NumT)
\* (lambda ((n : number)) : number (f n))
LambdaRec == makeProcExp(<<makeVarDecl("n", NumT)>>,
                         <<makeAppExp(makeVarRef("f"), <<makeVarRef("n")>>)>>, NumT)
\* (lambda ((n : number)) : boolean n): the body's type is not the declared one
LambdaBad == makeProcExp(<<makeVarDecl("n", NumT)>>, <<makeVarRef("n")>>, BoolT)
\* (lambda () : number 1)
LambdaNullary == makeProcExp(<<>>, <<Num5>>, NumT)

\* The frames environments are built from: [vars, texps]. The names of a frame
\* are distinct (typeofDefineExps, the caller of combineEnvs, passes a frame
\* of one name).
FramePool ==
    { [vars |-> <<"x">>, texps |-> <<NumT>>],
      [vars |-> <<"x">>, texps |-> <<BoolT>>],
      [vars |-> <<"y", "x">>, texps |-> <<StrT, NumT>>],
      [vars |-> <<"p", "f">>, texps |-> <<PairNB, ProcNN>>],
      [vars |-> <<"y", "T">>, texps |-> <<NumT, makePairTExp(makeTVar("T"), NumT)>>],
      [vars |-> <<"y", "z">>, texps |-> <<BoolT, makeTVar("T")>>],
      [vars |-> <<>>, texps |-> <<>>] }

\* Longest chain of frames of the first environment drawn by SpecEnv.
MaxFrames == 2

RECURSIVE Envs(_)
Envs(n) ==
    IF n = 0 THEN {makeEmptyTEnv}
    ELSE LET shorter == Envs(n - 1)
         IN  shorter \cup {makeExtendTEnv(f.vars, f.texps, e) : f \in FramePool, e \in shorter}

EnvXNum == makeExtendTEnv(<<"x">>, <<NumT>>, makeEmptyTEnv)
EnvPF == makeExtendTEnv(<<"p", "f">>, <<PairNB, ProcNN>>, EnvXNum)
EnvXBool == makeExtendTEnv(<<"x", "t">>, <<BoolT, makeTVar("T")>>, EnvPF)

EnvTVars == makeExtendTEnv(<<"t1", "t2">>, <<makeTVar("T1"), makeTVar("T2")>>, EnvXBool)

\* The second environment of combineEnvs: its enclosing environment is not read.
SecondEnvPool ==
    {makeEmptyTEnv}
    \cup {makeExtendTEnv(f.vars, f.texps, e) : f \in FramePool, e \in {makeEmptyTEnv, EnvXNum}}

\* The environments expressions are typed in.
TEnvPool == {makeEmptyTEnv, EnvXNum, EnvPF, EnvXBool, EnvTVars}

\* All sequences over S of length at most n.
RECURSIVE SeqsUpTo(_, _)
SeqsUpTo(S, n) ==
    IF n = 0 THEN {<<>>}
    ELSE LET shorter == SeqsUpTo(S, n - 1)
         IN  shorter \cup {<<x>> \o t : x \in S, t \in {u \in shorter : Len(u) = n - 1}}

SExpPool ==
    LET n4 == makeNumberSExp("4")
        n7 == makeNumberSExp("7")
        t == makeBooleanSExp("#t")
        str == makeStringSExp("s")
        abc == makeSymbolSExp("abc")
    IN  { n4, t, str, abc, makeEmptySExp,
          makeCompoundSExp(n4, n7), makeCompoundSExp(t, n7), makeCompoundSExp(n4, abc),
          makeCompoundSExp(str, makeEmptySExp),
          makeCompoundSExp(n4, makeCompoundSExp(t, makeEmptySExp)),
          makeCompoundSExp(makeCompoundSExp(abc, str), n7) }

LitPool == {makeLitExp(v) : v \in SExpPool}

AtomPool == {Num5, True, Hello, makeVarRef("x"), makeVarRef("p"), makeVarRef("f"),
             makeVarRef("t"), makeVarRef("zz"), makePrimOp("+"), makePrimOp("number?"),
             makePrimOp("newline"), makePrimOp("car"), makePrimOp("list")}

RandPool == {Num5, True, makeVarRef("x"), makeVarRef("p"), makeVarRef("t"),
             makeVarRef("zz"), Cons5T, QuoteAbc}

RatorPool == {makePrimOp("car"), makePrimOp("cdr"), makePrimOp("cons"), makePrimOp("+"),
              makePrimOp("not"), makePrimOp("number?"), makePrimOp("newline"),
              makeVarRef("f"), makeVarRef("p"), LambdaNullary}

AppPool == {makeAppExp(r, a) : r \in RatorPool, a \in SeqsUpTo(RandPool, MaxRands)}

\* Applications of the primitives whose table type has a type-variable parameter.
TVarRatorPool == {makePrimOp(op) : op \in {"number?", "boolean?", "string?", "list?", "pair?",
                                          "symbol?", "display", "eq?", "string=?"}}

TVarRandPool == {makeVarRef("t"), makeVarRef("t1"), makeVarRef("t2"), Num5, True, Hello,
                 makeVarRef("p"), makeVarRef("f")}

TVarAppPool ==
    {makeAppExp(r, a) : r \in TVarRatorPool, a \in SeqsUpTo(TVarRandPool, MaxRands)}

IfPool ==
    { makeIfExp(True, Num5, Num5), makeIfExp(Num5, Num5, Num5),
      makeIfExp(True, Num5, True), makeIfExp(makeVarRef("x"), makeVarRef("x"), True),
      makeIfExp(makeAppExp(makePrimOp(">"), <<Num5, Num5>>), True, True),
      makeIfExp(True, makePrimOp("number?"), makePrimOp("boolean?")),
      makeIfExp(True, makePrimOp("pair?"), makePrimOp("pair?")),
      makeIfExp(True, makePrimOp("symbol?"), makePrimOp("not")) }

ProcPool == {LambdaId, LambdaRec, LambdaBad, LambdaNullary}

DefineTypes == {NumT, BoolT, PairNB, ProcNN, LiteralT, makeVoidTExp,
                makeProcTExp(<<>>, NumT)}
DefineVals == RandPool \cup ProcPool \cup {makeIfExp(True, Num5, Num5)}
DefinePool == {makeDefineExp(makeVarDecl("x", t), v) : t \in DefineTypes, v \in DefineVals}
              \cup {makeDefineExp(makeVarDecl("f", ProcNN), v) : v \in {LambdaId, LambdaRec}}

LetPool ==
    { makeLetExp(<<makeBinding(makeVarDecl("x", BoolT), True)>>, <<makeVarRef("x")>>),
      makeLetExp(<<makeBinding(makeVarDecl("x", StrT), Hello)>>, <<makeVarRef("x")>>),
      makeLetExp(<<makeBinding(makeVarDecl("y", NumT), True)>>, <<makeVarRef("y")>>),
      makeLetExp(<<makeBinding(makeVarDecl("y", NumT), Num5),
                   makeBinding(makeVarDecl("w", NumT), makeVarRef("y"))>>,
                 <<makeVarRef("w")>>),
      makeLetExp(<<makeBinding(makeVarDecl("y", NumT), makeVarRef("x"))>>,
                 <<makeVarRef("x"), makeVarRef("y")>>) }

LetrecBindings ==
    { makeBinding(makeVarDecl("f", ProcNN), LambdaId),
      makeBinding(makeVarDecl("f", ProcNN), LambdaRec),
      makeBinding(makeVarDecl("f", BoolT), LambdaId),
      makeBinding(makeVarDecl("h", ProcNB), LambdaBad),
      makeBinding(makeVarDecl("g", NumT), Num5),
      makeBinding(makeVarDecl("g", ProcNN), makeVarRef("f")) }

LetrecBodies == {<<makeVarRef("f")>>, <<makeAppExp(makeVarRef("f"), <<Num5>>)>>,
                 <<makeVarRef("zz")>>, <<Num5>>}

LetrecPool ==
    {makeLetrecExp(bs, b) : bs \in SeqsUpTo(LetrecBindings, 2) \ {<<>>}, b \in LetrecBodies}

\* The top-level forms programs are built from.
DefXNum == makeDefineExp(makeVarDecl("x", NumT), Num5)
DefXBool == makeDefineExp(makeVarDecl("x", BoolT), True)
DefXBad == makeDefineExp(makeVarDecl("x", NumT), True)
DefYNum == makeDefineExp(makeVarDecl("y", NumT), makeVarRef("x"))
DefP == makeDefineExp(makeVarDecl("p", PairNB), Cons5T)
DefLiteral == makeDefineExp(makeVarDecl("literal", LiteralT), QuoteAbc)
DefF == makeDefineExp(makeVarDecl("f", ProcNN), LambdaId)
DefFRec == makeDefineExp(makeVarDecl("f", ProcNN), LambdaRec)
LetX == makeLetExp(<<makeBinding(makeVarDecl("x", BoolT), True)>>, <<makeVarRef("x")>>)
PlusX1 == makeAppExp(makePrimOp("+"), <<makeVarRef("x"), Num5>>)
CarP == makeAppExp(makePrimOp("car"), <<makeVarRef("p")>>)

FormPool == {DefXNum, DefXBool, DefXBad, DefYNum, DefP, DefLiteral, DefF, DefFRec,
             LetX, PlusX1, CarP, makeVarRef("x")}

Programs == SeqsUpTo(FormPool, MaxForms)

\* (define (x : boolean) x)
DefXSelf == makeDefineExp(makeVarDecl("x", BoolT), makeVarRef("x"))

ProgramPool == {makeProgram(es) : es \in {<<>>, <<DefXNum>>, <<DefXNum, PlusX1>>,
                                          <<DefXNum, DefXBool, makeVarRef("x")>>,
                                          <<Num5, DefXNum>>, <<DefXBad, Num5>>,
                                          <<DefFRec, makeVarRef("f")>>,
                                          <<DefF, DefFRec, makeVarRef("f")>>,
                                          <<DefXSelf, makeVarRef("x")>>,
                                          <<DefXNum, DefXSelf, makeVarRef("x")>>,
                                          <<DefXBool, DefXSelf, makeVarRef("x")>>}}

ExpPool == AtomPool \cup LitPool \cup AppPool \cup IfPool \cup ProcPool \cup DefinePool
           \cup LetPool \cup LetrecPool \cup ProgramPool \cup TVarAppPool

(***************************************************************************)
(* Spec: typeofProgram(makeProgram(exps), makeEmptyTEnv), one activation   *)
(* of typeOfSequence(seq, env) per state                                   *)
(***************************************************************************)
ExpIdle == /\ exp = Num5 /\ tenv = makeEmptyTEnv /\ res = NoResult
EnvIdle == /\ firstEnv = makeEmptyTEnv /\ secondEnv = makeEmptyTEnv /\ combined = NoResult
SeqIdle == /\ exps = <<>> /\ seq = <<>> /\ env = makeEmptyTEnv
           /\ pc = "idle" /\ result = NoResult

Init ==
    /\ exps \in Programs
    /\ seq = exps
    /\ env = makeEmptyTEnv
    /\ pc = "run"
    /\ result = NoResult
    /\ ExpIdle /\ EnvIdle

Return(r) ==
    /\ result' = r
    /\ pc' = "done"
    /\ UNCHANGED <<exps, seq, env, exp, tenv, res, firstEnv, secondEnv, combined>>

\* typeOfSequence on the empty list
EmptySequence ==
    /\ pc = "run" /\ seq = <<>>
    /\ Return(makeFailure("Empty sequence"))

\* typeOfFirst on a define: typeofDefineExps
DefineExps ==
    /\ pc = "run" /\ seq # <<>> /\ isDefineExp(Head(seq))
    /\ LET constraint == defineConstraint(Head(seq), env)
           newE == defineEnv(Head(seq), env)
       IN  IF isFailure(constraint) THEN Return(constraint)
           ELSE IF isFailure(newE) THEN Return(newE)
           ELSE /\ seq' = Tail(seq)
                /\ env' = newE.value
                /\ UNCHANGED <<exps, pc, result, exp, tenv, res,
                               firstEnv, secondEnv, combined>>

\* typeOfFirst on the last form, not a define
LastExp ==
    /\ pc = "run" /\ seq # <<>> /\ ~isDefineExp(Head(seq)) /\ Tail(seq) = <<>>
    /\ Return(typeofExp(Head(seq), env))

\* typeOfFirst on a form that is neither a define nor the last
NextExp ==
    /\ pc = "run" /\ seq # <<>> /\ ~isDefineExp(Head(seq)) /\ Tail(seq) # <<>>
    /\ LET r == typeofExp(Head(seq), env)
       IN  IF isFailure(r) THEN Return(r)
           ELSE /\ seq' = Tail(seq)
                /\ UNCHANGED <<exps, env, pc, result, exp, tenv, res,
                               firstEnv, secondEnv, combined>>

Next == EmptySequence \/ DefineExps \/ LastExp \/ NextExp

Spec == Init /\ [][Next]_vars

(***************************************************************************)
(* SpecExp: typeofExp(exp, tenv)                                           *)
(***************************************************************************)
InitExp ==
    /\ exp \in ExpPool
    /\ tenv \in TEnvPool
    /\ res = NoResult
    /\ SeqIdle /\ EnvIdle

TypeofExp ==
    /\ res = NoResult
    /\ res' = typeofExp(exp, tenv)
    /\ UNCHANGED <<exps, seq, env, pc, result, exp, tenv, firstEnv, secondEnv, combined>>

NextExpr == TypeofExp

SpecExp == InitExp /\ [][NextExpr]_vars

(***************************************************************************)
(* SpecEnv: combineEnvs(firstEnv, secondEnv)                               *)
(***************************************************************************)
InitEnv ==
    /\ firstEnv \in Envs(MaxFrames)
    /\ secondEnv \in SecondEnvPool
    /\ combined = NoResult
    /\ SeqIdle /\ ExpIdle

CombineEnvs ==
    /\ combined = NoResult
    /\ combined' = combineEnvs(firstEnv, secondEnv)
    /\ UNCHANGED <<exps, seq, env, pc, result, exp, tenv, res, firstEnv, secondEnv>>

NextEnv == CombineEnvs

SpecEnv == InitEnv /\ [][NextEnv]_vars

\* The stepwise run returns what the recursive typeofProgram returns.
StepwiseAgrees ==
    pc = "done" => result = typeofProgram(makeProgram(exps), makeEmptyTEnv)

(***************************************************************************)
(* Properties of typeofProgram (Spec)                                      *)
(***************************************************************************)
\* The variable names the inputs use.
Names == {"x", "y", "z", "w", "p", "f", "t", "t1", "t2", "T", "n", "literal", "zz"}

\* The number of forms of the program that were typed and passed over.
Consumed == Len(exps) - Len(seq)

\* Every form reached so far satisfied its own typing rule (typeofExp of a
\* define is typeofDefine) in the environment it was typed in.
AllFormsPass == seq = <<>> \/ isOk(typeofExp(Head(seq), env))

\* C1: a non-empty program whose forms each satisfy their own typing rule in
\* the environment threaded so far types successfully, as the type of its last
\* form (void when the last form is a define); "Empty sequence" is the failure
\* of the program without forms only.
C1_ProgramTypesLastForm ==
    (pc = "done" /\ exps # <<>>) =>
        /\ isFailure(result) => result.message # "Empty sequence"
        /\ AllFormsPass =>
              /\ isOk(result)
              /\ LET last == exps[Len(exps)]
                 IN  IF isDefineExp(last) THEN result.value = makeVoidTExp
                     ELSE result = typeofExp(last, env)

\* The position of the first define of the name v among the first n forms; 0 if none.
FirstDefine(v, n) ==
    LET D == {i \in 1..n : isDefineExp(exps[i]) /\ exps[i].var.var = v}
    IN  IF D = {} THEN 0 ELSE CHOOSE i \in D : \A j \in D : i <= j

FirstDefineResolves ==
    \A v \in Names :
        LET i == FirstDefine(v, Consumed)
        IN  IF i = 0 THEN isFailure(applyTEnv(env, v))
            ELSE applyTEnv(env, v) = makeOk(exps[i].var.texp)

C6_LetScope ==
    [][(pc = "run" /\ seq # <<>> /\ Head(seq).tag = "LetExp") =>
          LET l == Head(seq)
              r == typeofExp(l, env)
              vs == bindingVars(l.bindings)
          IN  /\ env' = env
              /\ \A v \in Names : applyTEnv(env', v) = applyTEnv(env, v)
              /\ (/\ isOk(r) /\ Len(l.body) = 1 /\ l.body[1].tag = "VarRef"
                  /\ indexOf(vs, l.body[1].var) # 0) =>
                    r.value = bindingTExps(l.bindings)[indexOf(vs, l.body[1].var)]
      ]_vars

\* x was defined with one type, a let that binds x to another type and refers
\* to it in its body was passed over, and x is about to be typed after the let.
C6_Witness ==
    /\ pc = "run" /\ Len(exps) = 3 /\ Consumed = 2
    /\ isDefineExp(exps[1]) /\ exps[1].var.var = "x"
    /\ exps[2].tag = "LetExp" /\ bindingVars(exps[2].bindings) = <<"x">>
    /\ exps[2].body = <<makeVarRef("x")>>
    /\ exps[2].bindings[1].var.texp # exps[1].var.texp
    /\ typeofExp(exps[2], env) = makeOk(exps[2].bindings[1].var.texp)
    /\ Head(seq) = makeVarRef("x")
    /\ typeofExp(Head(seq), env) = makeOk(exps[1].var.texp)

(***************************************************************************)
(* Properties of typeofExp (SpecExp)                                       *)
(***************************************************************************)
Typed == res.tag # "None"

\* C3: a standalone define types as void exactly when its value's type in tenv
\* equals the declared type; otherwise (a different type, or a value that does
\* not type) the result is a failure.
C3_DefineVoidIffEqual ==
    (Typed /\ isDefineExp(exp)) =>
        LET v == typeofExp(exp.val, tenv)
            equal == isOk(v) /\ v.value = exp.var.texp
        IN  /\ equal => res = makeOk(makeVoidTExp)
            /\ ~equal => isFailure(res)

\* A define whose value is a variable bound in tenv to the declared type.
C3_Witness ==
    /\ Typed /\ isDefineExp(exp) /\ exp.val.tag = "VarRef"
    /\ applyTEnv(tenv, exp.val.var) = makeOk(exp.var.texp)
    /\ res = makeOk(makeVoidTExp)

\* C4: an application whose operator is not the primitive car, cdr or cons
\* succeeds iff the operator types as a Proc, the operand count is the
\* parameter count and every operand's type equals its parameter type; it then
\* returns the Proc's return type, and fails otherwise.
C4_GenericApplication ==
    (/\ Typed /\ exp.tag = "AppExp"
     /\ ~(isPrimOp(exp.rator) /\ exp.rator.op \in {"car", "cdr", "cons"})) =>
        LET r == typeofExp(exp.rator, tenv)
            fits == /\ isOk(r)
                    /\ isProcTExp(r.value)
                    /\ Len(exp.rands) = Len(r.value.paramTEs)
                    /\ \A i \in 1..Len(exp.rands) :
                          LET a == typeofExp(exp.rands[i], tenv)
                          IN  isOk(a) /\ a.value = r.value.paramTEs[i]
        IN  /\ fits => res = makeOk(r.value.returnTE)
            /\ ~fits => isFailure(res)

\* A variable bound to a one-parameter procedure applied to one operand of the
\* parameter's type.
C4_Witness ==
    /\ Typed /\ exp.tag = "AppExp" /\ exp.rator = makeVarRef("f")
    /\ Len(exp.rands) = 1 /\ isOk(res)
    /\ res.value = applyTEnv(tenv, "f").value.returnTE

\* C5: car (cdr) succeeds iff it has exactly one operand and that operand types
\* as a Pair, and returns the Pair's first (second) component; cons succeeds
\* iff it has exactly two operands that both type, and returns the Pair of
\* their types.
C5_CarCdrCons ==
    (Typed /\ exp.tag = "AppExp" /\ isPrimOp(exp.rator)) =>
        /\ exp.rator.op \in {"car", "cdr"} =>
              LET fits == /\ Len(exp.rands) = 1
                          /\ isOk(typeofExp(exp.rands[1], tenv))
                          /\ isPairTExp(typeofExp(exp.rands[1], tenv).value)
                  pair == typeofExp(exp.rands[1], tenv).value
              IN  /\ fits => res = makeOk(IF exp.rator.op = "car" THEN pair.first
                                                                  ELSE pair.second)
                  /\ ~fits => isFailure(res)
        /\ exp.rator.op = "cons" =>
              LET fits == /\ Len(exp.rands) = 2
                          /\ isOk(typeofExp(exp.rands[1], tenv))
                          /\ isOk(typeofExp(exp.rands[2], tenv))
              IN  /\ fits => res = makeOk(makePairTExp(typeofExp(exp.rands[1], tenv).value,
                                                       typeofExp(exp.rands[2], tenv).value))
                  /\ ~fits => isFailure(res)

\* cdr of a variable bound to a Pair whose components differ.
C5_Witness ==
    /\ Typed /\ exp = makeAppExp(makePrimOp("cdr"), <<makeVarRef("p")>>)
    /\ applyTEnv(tenv, "p") = makeOk(PairNB)
    /\ res = makeOk(BoolT)

\* C7: a letrec with a binding whose value is not a procedure expression fails
\* with the letrec failure itself, whatever the declared types, the other
\* bindings and the body are (no failure of a procedure body or of the letrec
\* body is reported in its place).
C7_LetrecRejectsNonProc ==
    (/\ Typed /\ exp.tag = "LetrecExp"
     /\ \E i \in 1..Len(exp.bindings) : ~isProcExp(exp.bindings[i].val)) =>
        res = makeFailure("letrec - only support binding of procedures")

\* A letrec with a non-procedure binding whose other binding or body would
\* fail on its own, and one whose other parts would type.
C7_Witness ==
    /\ Typed /\ exp.tag = "LetrecExp" /\ Len(exp.bindings) = 2
    /\ ~isProcExp(exp.bindings[2].val)
    /\ exp.bindings[1].val = LambdaBad
    /\ exp.body = <<makeVarRef("zz")>>
    /\ isFailure(res)

\* The classification of a quoted value: number, boolean and string values
\* as Num, Bool and Str, a symbol as the type variable "literal", the empty
\* value as the Empty marker, a compound value as the Pair of its halves'.
RECURSIVE Classification(_)
Classification(v) ==
    CASE v.tag = "number" -> makeNumTExp
      [] v.tag = "boolean" -> makeBoolTExp
      [] v.tag = "string" -> makeStrTExp
      [] v.tag = "SymbolSExp" -> makeTVar("literal")
      [] v.tag = "EmptySExp" -> makeEmptyTupleTExp
      [] v.tag = "CompoundSExp" ->
             makePairTExp(Classification(v.val1), Classification(v.val2))

IsAtomSExp(v) == v.tag \in {"number", "boolean", "string", "SymbolSExp"}

\* C8: a quoted value that is not a compound pair types as the type variable
\* "literal"; a quoted dotted pair of two atoms types as the Pair of number,
\* boolean, string (for such a half) or "literal" (for a symbol half).
C8_QuotedLiteral ==
    (Typed /\ exp.tag = "LitExp") =>
        /\ ~isCompoundSExp(exp.val) => res = makeOk(makeTVar("literal"))
        /\ (/\ isCompoundSExp(exp.val)
            /\ IsAtomSExp(exp.val.val1) /\ IsAtomSExp(exp.val.val2)) =>
              LET half(v) == IF v.tag = "number" THEN makeNumTExp
                             ELSE IF v.tag = "boolean" THEN makeBoolTExp
                             ELSE IF v.tag = "string" THEN makeStrTExp
                             ELSE makeTVar("literal")
              IN  res = makeOk(makePairTExp(half(exp.val.val1), half(exp.val.val2)))
        /\ exp = makeLitExp(makeCompoundSExp(makeNumberSExp("4"), makeNumberSExp("7")))
              => res = makeOk(makePairTExp(NumT, NumT))
        /\ exp = makeLitExp(makeCompoundSExp(makeBooleanSExp("#t"), makeNumberSExp("7")))
              => res = makeOk(makePairTExp(BoolT, NumT))
        /\ exp = makeLitExp(makeCompoundSExp(makeNumberSExp("4"), makeSymbolSExp("abc")))
              => res = makeOk(makePairTExp(NumT, LiteralT))

\* The quoted number, typed as "literal".
C8_Witness ==
    /\ Typed /\ exp = makeLitExp(makeNumberSExp("4"))
    /\ res = makeOk(makeTVar("literal"))

\* C9 as stated: a quoted literal types as the classification of its value, at
\* the top level of the quoted value as well as inside a compound.
C9_ClassifiesAtTopLevel ==
    (Typed /\ exp.tag = "LitExp") => res = makeOk(Classification(exp.val))

\* C9 amended: the value is classified inside a compound only. A compound
\* literal types as Pair(classify(first), classify(second)), to any depth; a
\* quoted number, boolean, string, symbol or empty value at the top level types
\* as the type variable "literal".
C9_ClassifiesInsideCompound ==
    (Typed /\ exp.tag = "LitExp") =>
        IF isCompoundSExp(exp.val)
        THEN res = makeOk(makePairTExp(Classification(exp.val.val1),
                                       Classification(exp.val.val2)))
        ELSE res = makeOk(makeTVar("literal"))

\* A compound literal with a compound half and an empty value inside.
C9_Witness ==
    /\ Typed /\ exp.tag = "LitExp" /\ isCompoundSExp(exp.val)
    /\ isCompoundSExp(exp.val.val2) /\ exp.val.val2.val2 = makeEmptySExp
    /\ res = makeOk(makePairTExp(NumT, makePairTExp(BoolT, makeEmptyTupleTExp)))

(***************************************************************************)
(* Properties of combineEnvs (SpecEnv)                                     *)
(***************************************************************************)
\* The bindings of the frame e, as (name, type) pairs.
FrameBindings(e) == {<<e.vars[i], e.texps[i]>> : i \in 1..Len(e.vars)}

\* C10: a successful combineEnvs(a, b) of two non-terminal environments is a
\* new frame chained onto a (a itself is the result's enclosing environment,
\* as it was) that holds exactly the bindings of b's frame whose names do not
\* resolve in a, in b's order; so a name that resolves in a resolves to the
\* same type in the result, and a name of b's frame that does not resolve in a
\* resolves to b's type.
C10_CombineFirstWins ==
    (/\ combined.tag # "None" /\ isOk(combined)
     /\ ~isEmptyTEnv(firstEnv) /\ ~isEmptyTEnv(secondEnv)) =>
        LET r == combined.value
        IN  /\ r.tag = "ExtendTEnv"
            /\ r.tenv = firstEnv
            /\ Len(r.vars) = Len(r.texps)
            /\ FrameBindings(r) = {b \in FrameBindings(secondEnv) :
                                      isFailure(applyTEnv(firstEnv, b[1]))}
            /\ Len(r.vars) = Cardinality(FrameBindings(r))
            /\ \A i, j \in 1..Len(r.vars) :
                  i < j => indexOf(secondEnv.vars, r.vars[i]) < indexOf(secondEnv.vars, r.vars[j])
            /\ \A v \in Names :
                  /\ isOk(applyTEnv(firstEnv, v)) => applyTEnv(r, v) = applyTEnv(firstEnv, v)
                  /\ (isFailure(applyTEnv(firstEnv, v)) /\ indexOf(secondEnv.vars, v) # 0) =>
                        applyTEnv(r, v) = makeOk(secondEnv.texps[indexOf(secondEnv.vars, v)])

\* The second frame re-declares, with another type, a name the first
\* environment resolves, and declares a name it does not resolve.
C10_Witness ==
    /\ combined.tag # "None" /\ isOk(combined)
    /\ ~isEmptyTEnv(firstEnv) /\ ~isEmptyTEnv(secondEnv)
    /\ \E i, j \in 1..Len(secondEnv.vars) :
          /\ isOk(applyTEnv(firstEnv, secondEnv.vars[i]))
          /\ applyTEnv(firstEnv, secondEnv.vars[i]) # makeOk(secondEnv.texps[i])
          /\ isFailure(applyTEnv(firstEnv, secondEnv.vars[j]))
          /\ combined.value.vars = <<secondEnv.vars[j]>>

(***************************************************************************)
(* Properties of typeofPrim and of the rules that use it (SpecExp)         *)
(***************************************************************************)
UnaryPredicates == {"number?", "boolean?", "string?", "list?", "pair?", "symbol?"}

\* C11: two separate references to unary predicates get procedure types
\* (T -> boolean) whose type-variable names differ, so the two types are not
\* structurally equal; a conditional whose two branches are such references
\* is therefore rejected as having branches of different types.
C11_FreshTVarPerReference ==
    (/\ Typed /\ exp.tag = "IfExp"
     /\ isPrimOp(exp.then) /\ exp.then.op \in UnaryPredicates
     /\ isPrimOp(exp.alt) /\ exp.alt.op \in UnaryPredicates) =>
        LET a == typeofExp(exp.then, tenv)
            b == typeofExp(exp.alt, tenv)
        IN  /\ isOk(a) /\ isOk(b)
            /\ isProcTExp(a.value) /\ isProcTExp(b.value)
            /\ a.value.returnTE = makeBoolTExp /\ b.value.returnTE = makeBoolTExp
            /\ Len(a.value.paramTEs) = 1 /\ Len(b.value.paramTEs) = 1
            /\ a.value.paramTEs[1].tag = "TVar" /\ b.value.paramTEs[1].tag = "TVar"
            /\ a.value.paramTEs[1].var # b.value.paramTEs[1].var
            /\ a.value # b.value
            /\ res = makeFailure("Incompatible types")

(***************************************************************************)
(* Properties of a define's value (SpecExp)                                *)
(***************************************************************************)
Unbound == makeFailure("Type Variable not found")

\* The define d refers to its own name: its value is that variable, or a
\* procedure whose body applies that variable and whose parameters do not
\* bind it.
RefersToItself(d) ==
    /\ isDefineExp(d)
    /\ \/ d.val = makeVarRef(d.var.var)
       \/ /\ isProcExp(d.val)
          /\ indexOf(declVars(d.val.args), d.var.var) = 0
          /\ Len(d.val.body) = 1 /\ d.val.body[1].tag = "AppExp"
          /\ d.val.body[1].rator = makeVarRef(d.var.var)

\* What a define that refers to itself returns in the environment e that
\* precedes it: the unbound-variable failure when e does not bind its name;
\* otherwise the reference resolves to e's type of the name, so that a define
\* whose value is the bare reference passes exactly when that type is the
\* declared one.
SelfDefineOutcome(d, e, r) ==
    IF isFailure(applyTEnv(e, d.var.var)) THEN r = Unbound
    ELSE /\ r # Unbound
         /\ d.val = makeVarRef(d.var.var) =>
               r = IF applyTEnv(e, d.var.var).value = d.var.texp
                   THEN makeOk(makeVoidTExp)
                   ELSE makeFailure("Incompatible types")

\* C12: typeofDefine and typeofDefineExps type the value of a define in the
\* environment that precedes the define, where this define does not bind its
\* name: a define that refers to its own name fails with the unbound-variable
\* failure unless the name is bound before it, and then the reference resolves
\* to the earlier type.
C12_DefineValueInPrecedingEnv ==
    /\ (Typed /\ RefersToItself(exp)) => SelfDefineOutcome(exp, tenv, res)
    /\ (Typed /\ exp.tag = "Program" /\ Len(exp.exps) = 2
        /\ RefersToItself(exp.exps[1])) =>
          LET d == exp.exps[1]
          IN  IF isFailure(applyTEnv(tenv, d.var.var)) THEN res = Unbound
              ELSE res # Unbound
    /\ (Typed /\ exp.tag = "Program" /\ Len(exp.exps) = 3
        /\ isDefineExp(exp.exps[1]) /\ RefersToItself(exp.exps[2])
        /\ exp.exps[1].var.var = exp.exps[2].var.var
        /\ exp.exps[3] = makeVarRef(exp.exps[2].var.var)
        /\ isFailure(applyTEnv(tenv, exp.exps[1].var.var))
        /\ isOk(typeofExp(exp.exps[1], tenv))) =>
          LET earlier == exp.exps[1].var.texp
              d == exp.exps[2]
              before == makeExtendTEnv(<<d.var.var>>, <<earlier>>, tenv)
          IN  IF isOk(typeofExp(d, before)) THEN res = makeOk(earlier)
              ELSE /\ isFailure(res) /\ res # Unbound
                   /\ d.val = makeVarRef(d.var.var) =>
                         res = makeFailure("Incompatible types")

\* A recursive lambda defined in an environment that does not bind its name.
C12_Witness ==
    /\ Typed /\ exp = DefFRec
    /\ isFailure(applyTEnv(tenv, "f"))
    /\ res = Unbound

(***************************************************************************)
(* Properties of typeofLetrec (SpecExp)                                    *)
(***************************************************************************)
\* The procedure type a lambda's own annotations give.
DerivedProcTExp(p) == makeProcTExp(declTExps(p.args), p.returnTE)

\* C13: typeofLetrec does not compare a binding's declared type with its
\* procedure. The bound names enter the body environment with the Proc types
\* of the lambdas' own annotations; when every procedure checks in that
\* environment the letrec is accepted or rejected as its body is, whatever
\* the declared types are, and a body that is a reference to a bound name
\* types as that name's procedure-derived type.
C13_LetrecIgnoresDeclaredType ==
    (/\ Typed /\ exp.tag = "LetrecExp"
     /\ \A i \in 1..Len(exp.bindings) : isProcExp(exp.bindings[i].val)) =>
        LET n == Len(exp.bindings)
            ps == [i \in 1..n |-> exp.bindings[i].var.var]
            derived == [i \in 1..n |-> DerivedProcTExp(exp.bindings[i].val)]
            bodyEnv == makeExtendTEnv(ps, derived, tenv)
            procsCheck == \A i \in 1..n : isOk(typeofExp(exp.bindings[i].val, bodyEnv))
        IN  /\ ~procsCheck => isFailure(res)
            /\ procsCheck =>
                  /\ res = typeofExps(exp.body, bodyEnv)
                  /\ (Len(exp.body) = 1 /\ exp.body[1].tag = "VarRef"
                      /\ indexOf(ps, exp.body[1].var) # 0) =>
                        res = makeOk(derived[indexOf(ps, exp.body[1].var)])

\* A binding declared boolean whose procedure is (number -> number), accepted;
\* the reference to it in the body has the procedure's type.
C13_Witness ==
    /\ Typed /\ exp.tag = "LetrecExp" /\ Len(exp.bindings) = 1
    /\ exp.bindings[1].var.texp = BoolT
    /\ exp.bindings[1].val = LambdaId
    /\ exp.body = <<makeVarRef("f")>>
    /\ res = makeOk(ProcNN)

(***************************************************************************)
(* Properties of primitives with a type-variable parameter (SpecExp)       *)
(***************************************************************************)
\* The names of the type variables of the primitive's parameters.
TVarParams(op) == IF op \in {"eq?", "string=?"} THEN <<"T1", "T2">> ELSE <<"T">>

TVarPrims == UnaryPredicates \cup {"display", "eq?", "string=?"}

IsConcreteTExp(te) ==
    te.tag \in {"NumTExp", "BoolTExp", "StrTExp", "PairTExp", "ProcTExp"}

\* C14: applied through the generic rule, a primitive whose table type has a
\* type-variable parameter succeeds only when each operand's type is exactly
\* the type variable of the parameter's name; with the right number of
\* operands, an operand of type number, boolean, string, a Pair or a Proc
\* (the operands before it typing) makes it fail with the incompatible-types
\* failure.
C14_TVarParameterNotInstantiated ==
    (/\ Typed /\ exp.tag = "AppExp"
     /\ isPrimOp(exp.rator) /\ exp.rator.op \in TVarPrims) =>
        LET params == TVarParams(exp.rator.op)
            arg(i) == typeofExp(exp.rands[i], tenv)
        IN  /\ isOk(res) =>
                  /\ Len(exp.rands) = Len(params)
                  /\ \A i \in 1..Len(params) : arg(i) = makeOk(makeTVar(params[i]))
            /\ (/\ Len(exp.rands) = Len(params)
                /\ \E i \in 1..Len(params) :
                      /\ \A j \in 1..i : isOk(arg(j))
                      /\ IsConcreteTExp(arg(i).value)) =>
                  res = makeFailure("Incompatible types")

\* eq? applied to an operand of its first parameter's type variable and an
\* operand of a Pair type.
C14_Witness ==
    /\ Typed
    /\ exp = makeAppExp(makePrimOp("eq?"), <<makeVarRef("t1"), makeVarRef("p")>>)
    /\ typeofExp(makeVarRef("t1"), tenv) = makeOk(makeTVar("T1"))
    /\ typeofExp(makeVarRef("p"), tenv) = makeOk(PairNB)
    /\ res = makeFailure("Incompatible types")

====
